---------------------------- MODULE Spec2Model ----------------------------
(***************************************************************************)
(* Model of Scripts/generate_puzzle.py: the wrapper that validates its     *)
(* arguments, upscales a small image, runs the external cutter             *)
(* (piecemaker) in <output_dir>_temp, picks the largest size-N directory,  *)
(* reads index.json / adjacent.json / pieces.json, copies the piece images *)
(* into <output_dir>/pieces, classifies each piece, writes metadata.json   *)
(* and prints the metadata (or a JSON error) on standard output.           *)
(*                                                                         *)
(* One run of the script is a process r; its position in main() is pc[r]   *)
(* and its Python locals are the fields of loc[r].  The filesystem fs is   *)
(* shared by all runs.  A step is one block of main(): an exists() test    *)
(* with the rmtree or copy it guards, the makedirs calls of the output     *)
(* directory, one iteration of the piece loop, the subprocess from its     *)
(* start to its end.                                                       *)
(*                                                                         *)
(* Modelling conventions                                                   *)
(*  - A path is a sequence of components; a component is <<base, k>>: the  *)
(*    name base followed by k copies of the suffix "_temp".  A command     *)
(*    line path argument is [path, slash]: the components and whether the  *)
(*    string ends in "/".                                                  *)
(*  - A decimal string (argv[3], the suffix of a size-N directory) is a    *)
(*    sequence of one-character strings.                                   *)
(*  - fs is a set of entries [dir, name, by, data]: name = <<kind, tier,   *)
(*    id>>, by = the run that wrote it (0: it was there before any run),   *)
(*    data = what a reader of the file gets.                               *)
(*  - The cutter writes well-formed entries: the ids of pieces.json are    *)
(*    canonical decimal integers and every geometry entry has its six      *)
(*    numbers; the boxes lie inside the image.                             *)
(***************************************************************************)
EXTENDS Integers, Sequences, FiniteSets, TLC

VARIABLES
    argv,       \* argv[r]: [argc, output_dir, count]  (sys.argv of run r)
    image,      \* image[r]: what is at argv[r]'s image path
    pc,         \* pc[r]: position of run r in main()
    loc,        \* loc[r]: the locals of main()
    fs,         \* the filesystem (output and temporary directories)
    fs0,        \* history: the filesystem before any run started
    tmpfiles,   \* upscaled temporary images that exist (named by their run)
    stdout,     \* stdout[r]: the JSON objects run r printed
    exit_code,  \* exit_code[r]: -1 while running, then the exit status
    exc,        \* exc[r]: the exception propagating out of main()
    did,        \* did[r]: history of the kinds of work run r has begun
    cut,        \* cut[r]: history of what run r's cutter produced
    box,        \* input of the classification check
    ptype       \* output of the classification check

vars == <<argv, image, pc, loc, fs, fs0, tmpfiles, stdout, exit_code, exc, did,
          cut, box, ptype>>

\* what no step of a run changes
inputs == <<argv, image, fs0, box, ptype>>

runvars == <<argv, image, pc, loc, fs, fs0, tmpfiles, stdout, exit_code, exc,
             did, cut>>

---------------------------------------------------------------------------
(* Bounds of the model *)

\* the script is started once (run 1) or twice (runs 1 and 2)
Runs == {1, 2}

\* ids the cutter may put in pieces.json are 1..MaxId
MaxId == 2

\* the piece counts tried on the command line are 0..MaxCount
MaxCount == 3

\* side of one grid cell of the cutter's layout, in pixels
Cell == 10

\* the large image extent of the classification check
BigDim == 1000

\* the small image extents of the classification check are 0..SmallDim
SmallDim == 4

---------------------------------------------------------------------------
(* Program constants *)

\* len(sys.argv) the script requires
ExpectedArgc == 4

\* smallest piece count accepted
MinPieces == 2

\* border tolerance in pixels
Tolerance == 2

---------------------------------------------------------------------------
(* Decimal strings and Python's int() *)

Digits == <<"0", "1", "2", "3", "4", "5", "6", "7", "8", "9">>

IsDigit(c) == \E i \in 1..10 : Digits[i] = c

DigitVal(c) == (CHOOSE i \in 1..10 : Digits[i] = c) - 1

RECURSIVE DecVal(_)
DecVal(s) ==
    IF s = <<>> THEN 0
    ELSE 10 * DecVal(SubSeq(s, 1, Len(s) - 1)) + DigitVal(s[Len(s)])

AllDigits(s) == Len(s) > 0 /\ \A i \in 1..Len(s) : IsDigit(s[i])

\* int(s): [ok, val]; ok = FALSE stands for ValueError.  Signs are accepted
\* as Python accepts them.
PyInt(s) ==
    IF AllDigits(s) THEN [ok |-> TRUE, val |-> DecVal(s)]
    ELSE IF Len(s) > 1 /\ s[1] = "-" /\ AllDigits(Tail(s))
         THEN [ok |-> TRUE, val |-> 0 - DecVal(Tail(s))]
    ELSE IF Len(s) > 1 /\ s[1] = "+" /\ AllDigits(Tail(s))
         THEN [ok |-> TRUE, val |-> DecVal(Tail(s))]
    ELSE [ok |-> FALSE, val |-> 0]

---------------------------------------------------------------------------
(* Paths *)

IsPrefix(p, q) == Len(p) <= Len(q) /\ SubSeq(q, 1, Len(p)) = p

\* the string a + "_temp", as a path argument
AppendSuffix(a) ==
    IF a.slash \/ a.path = <<>>
    THEN [path |-> Append(a.path, <<"", 1>>), slash |-> FALSE]
    ELSE [path |-> [a.path EXCEPT ![Len(a.path)] = <<@[1], @[2] + 1>>],
          slash |-> FALSE]

\* the directory a path argument names: a trailing "/" changes nothing
Resolve(a) == a.path

\* os.path.join(dir, "pieces") and the like keep the directory's components
Arg(base, k, slash) == [path |-> <<<<base, k>>>>, slash |-> slash]

---------------------------------------------------------------------------
(* The filesystem *)

NoTier == <<>>

NoData == [ok |-> TRUE, ids |-> {}]

DirName == <<".", NoTier, 0>>

Entry(d, n, r, x) == [dir |-> d, name |-> n, by |-> r, data |-> x]

Exists(f, d, n) == \E e \in f : e.dir = d /\ e.name = n

DirExists(f, d) == Exists(f, d, DirName)

ReadFile(f, d, n) == (CHOOSE e \in f : e.dir = d /\ e.name = n).data

\* open(..., "w") / shutil.copy2: the file is created or replaced
WriteFile(f, d, n, r, x) ==
    {e \in f : ~(e.dir = d /\ e.name = n)} \cup {Entry(d, n, r, x)}

\* shutil.rmtree(d): d and everything beneath it
Rmtree(f, d) == {e \in f : ~IsPrefix(d, e.dir)}

\* os.makedirs(d, exist_ok=True): d and its missing ancestors
Makedirs(f, d, r) ==
    f \cup {Entry(SubSeq(d, 1, i), DirName, r, NoData) :
              i \in {j \in 1..Len(d) : ~DirExists(f, SubSeq(d, 1, j))}}

Under(f, d) == {e \in f : IsPrefix(d, e.dir)}

---------------------------------------------------------------------------
(* What the cutter produces *)

\* suffixes N of the size-N directories the cutter may leave
TierPool ==
    {<<"1", "0", "0">>, <<"5", "0">>, <<"2", "5">>, <<"x">>, <<"-", "5">>}

FullTier == <<"1", "0", "0">>

AllIds == 1..MaxId

\* the cutter's layout: a 3 x 3 grid of cells; piece id sits in cell
\* GridPos[id] = <<column, row>>
GridPos ==
    <<<<0, 0>>, <<1, 1>>, <<1, 0>>, <<2, 2>>, <<0, 1>>, <<2, 0>>, <<1, 2>>,
      <<0, 2>>, <<2, 1>>>>

GridSide == 3

ImageWidth == GridSide * Cell

ImageHeight == GridSide * Cell

\* pieces.json[pid]: [x1, y1, x2, y2, width, height]
PData(pid) ==
    LET c == GridPos[pid][1]
        w == GridPos[pid][2]
    IN  <<c * Cell, w * Cell, (c + 1) * Cell, (w + 1) * Cell, Cell, Cell>>

Abs(n) == IF n < 0 THEN 0 - n ELSE n

Touching(a, b) ==
    Abs(GridPos[a][1] - GridPos[b][1]) + Abs(GridPos[a][2] - GridPos[b][2]) = 1

RECURSIVE SortedSeq(_)
SortedSeq(S) ==
    IF S = {} THEN <<>>
    ELSE LET m == CHOOSE x \in S : \A y \in S : x <= y
         IN  <<m>> \o SortedSeq(S \ {m})

\* adjacent.json written for the ids `ids`: pid -> its neighbours
AdjacentOf(ids, pid) == SortedSeq({n \in ids : n # pid /\ Touching(pid, n)})

MetaFiles == {"index.json", "adjacent.json", "pieces.json"}

\* one metadata file at most is damaged by a cutter run
MetaFaults ==
    {<<"none", "none">>} \cup (MetaFiles \X {"missing", "corrupt"})

NoFault == <<"none", "none">>

Result(o, t, b, i, x, l, f) ==
    [outcome |-> o, tiers |-> t, bad |-> b, ids |-> i, raster |-> x,
     lines |-> l, files |-> f]

NoResult == Result("none", {}, NoFault, {}, {}, {}, {})

\* the subprocess ends without a result
FailedResults ==
    {Result(o, {}, NoFault, {}, {}, {}, {}) :
        o \in {"notfound", "timeout", "nonzero"}}

\* a plain file, not a directory, whose name starts with "size-"
StrayFile == <<"9", "9", "9">>

\* exit status 0.  Every set of size directories with every choice of ids
\* and of present images; no size directory at all; each damaged or
\* missing metadata file; every choice of overlays and of a stray file
\* beside size-100.
OkResults ==
    UNION {{Result("ok", t, NoFault, i, x, {"png", "svg"}, {}) :
              t \in (SUBSET TierPool) \ {{}}, x \in SUBSET i}
           : i \in SUBSET AllIds}
    \cup {Result("ok", {}, NoFault, AllIds, AllIds, {}, f) :
            f \in SUBSET {StrayFile}}
    \cup {Result("ok", t, b, AllIds, AllIds, {}, {}) :
            t \in {{FullTier}, {<<"5", "0">>, <<"x">>}},
            b \in MetaFaults \ {NoFault}}
    \cup UNION {{Result("ok", {FullTier}, NoFault, i, x, l, f) :
                   x \in SUBSET i, l \in SUBSET {"png", "svg"},
                   f \in SUBSET {StrayFile}}
                : i \in SUBSET AllIds}

CutterResults == FailedResults \cup OkResults

\* the results tried when two runs are interleaved
ConcCutterResults ==
    {Result("nonzero", {}, NoFault, {}, {}, {}, {})}
    \cup {Result("ok", {FullTier}, NoFault, AllIds, x, {"png"}, {}) :
            x \in {AllIds, {1}}}

FileName(kind) == <<kind, NoTier, 0>>

\* lines-resized.png / lines-resized.svg in the cutter's directory
LinesResized(x) ==
    IF x = "png" THEN FileName("lines-resized.png")
    ELSE FileName("lines-resized.svg")

\* lines.png / lines.svg in the output directory
LinesOut(x) ==
    IF x = "png" THEN FileName("lines.png") ELSE FileName("lines.svg")

SizeDir(t) == <<"size-", t, 0>>

\* a regular file named size-<t>
SizeFile(t) == <<"size- (file)", t, 0>>

PiecesJson(t) == <<"size-/pieces.json", t, 0>>

RasterPng(t, pid) == <<"size-/raster/image-0/png", t, pid>>

PiecePng(pid) == <<"pieces/piece_png", NoTier, pid>>

Status(c, file) == [ok |-> c.bad # <<file, "corrupt">>, ids |-> c.ids]

\* the files a cutter run with result c leaves in directory d
CutterFiles(c, d, r) ==
    IF c.outcome # "ok" THEN {}
    ELSE {Entry(d, SizeDir(t), r, NoData) : t \in c.tiers}
         \cup {Entry(d, PiecesJson(t), r, Status(c, "pieces.json")) :
                 t \in {u \in c.tiers : c.bad # <<"pieces.json", "missing">>}}
         \cup {Entry(d, RasterPng(t, i), r, NoData) :
                 t \in c.tiers, i \in c.raster}
         \cup {Entry(d, FileName(f), r, Status(c, f)) :
                 f \in {g \in {"index.json", "adjacent.json"} :
                          c.bad # <<g, "missing">>}}
         \cup {Entry(d, LinesResized(x), r, NoData) : x \in c.lines}
         \cup {Entry(d, SizeFile(t), r, NoData) : t \in c.files}

\* the subprocess writes into --dir whatever is there already
RunCutterFiles(f, c, d, r) ==
    {e \in f : \A n \in CutterFiles(c, d, r) :
                  ~(n.dir = e.dir /\ n.name = e.name)}
    \cup CutterFiles(c, d, r)

---------------------------------------------------------------------------
(* JSON objects on standard output *)

NoWarning == [present |-> FALSE, count |-> 0, ids |-> <<>>]

NoMetadata ==
    [piece_count |-> 0, image_width |-> 0, image_height |-> 0,
     requested_pieces |-> 0, pieces |-> <<>>, warning |-> NoWarning]

ErrorObject(message) ==
    [kind |-> "error", error |-> message, metadata |-> NoMetadata]

MetadataObject(m) == [kind |-> "metadata", error |-> "", metadata |-> m]

---------------------------------------------------------------------------
(* main(): helpers *)

InitLoc ==
    [num_pieces |-> 0, actual_image |-> "none", cleanup_upscaled |-> FALSE,
     temp_dir |-> <<>>, size_dirs |-> {}, size_dir |-> NoTier,
     index_data |-> [image_width |-> 0, image_height |-> 0],
     adjacent_data |-> {}, pieces_data |-> {}, piece_ids |-> <<>>,
     next_pid |-> 1, pieces_metadata |-> <<>>, missing_pieces |-> <<>>,
     metadata |-> NoMetadata]

Goto(r, label) ==
    /\ pc' = [pc EXCEPT ![r] = label]
    /\ UNCHANGED <<stdout, exc>>

\* error_exit: print the JSON error, then sys.exit(1) raises SystemExit
error_exit(r, message) ==
    /\ stdout' = [stdout EXCEPT ![r] = Append(@, ErrorObject(message))]
    /\ exc' = [exc EXCEPT ![r] = "SystemExit"]
    /\ pc' = [pc EXCEPT ![r] = "unwind"]

\* an exception no handler of main() catches
Raise(r) ==
    /\ exc' = [exc EXCEPT ![r] = "Exception"]
    /\ pc' = [pc EXCEPT ![r] = "unwind"]
    /\ UNCHANGED stdout

Note(r, what) == did' = [did EXCEPT ![r] = @ \cup {what}]

OutputDir(r) == Resolve(argv[r].output_dir)

\* the check off by one
ValidCountLoose(n) == n >= MinPieces - 1

\* num_pieces < 2 is rejected
ValidCount(n) == n >= MinPieces

\* one temporary directory for every run
TempDirShared(a) == Arg("puzzle", 1, FALSE)

\* temp_dir = output_dir + "_temp"
TempDirOf(a) == AppendSuffix(a)

\* parse_size_dir, on the text after "size-"
parse_size_dir(d) == LET n == PyInt(d) IN IF n.ok THEN n.val ELSE 0

\* the sort without reverse=True
SelectSmallestSizeDir(ds) ==
    {d \in ds : \A e \in ds : parse_size_dir(d) <= parse_size_dir(e)}

\* size_dirs.sort(key=parse_size_dir, reverse=True); size_dirs[0].  The
\* order of os.listdir among equal keys is arbitrary: every directory of
\* the largest key may come first.
SelectSizeDir(ds) ==
    {d \in ds : \A e \in ds : parse_size_dir(d) >= parse_size_dir(e)}

\* [d for d in os.listdir(temp_dir)
\*    if d.startswith("size-") and os.path.isdir(...)]
ListSizeDirs(f, t) ==
    {e.name[2] : e \in {x \in f : x.dir = t /\ x.name[1] = SizeDir(NoTier)[1]}}

\* json.load of a file: "missing", "corrupt" or "ok"
LoadJson(f, d, n) ==
    IF ~Exists(f, d, n) THEN "missing"
    ELSE IF ~ReadFile(f, d, n).ok THEN "corrupt"
    ELSE "ok"

Count(b) == IF b THEN 1 ELSE 0

\* the classification with the tolerance compared strictly
PieceTypeStrict(x1, y1, x2, y2, img_w, img_h) ==
    LET is_left   == x1 < Tolerance
        is_right  == x2 > img_w - Tolerance
        is_top    == y1 < Tolerance
        is_bottom == y2 > img_h - Tolerance
        border_count ==
            Count(is_left) + Count(is_right) + Count(is_top) + Count(is_bottom)
    IN  IF border_count >= 2 THEN "corner"
        ELSE IF border_count = 1 THEN "edge"
        ELSE "interior"

\* the classification of a piece from its box and the image size
PieceType(x1, y1, x2, y2, img_w, img_h) ==
    LET is_left   == x1 <= Tolerance
        is_right  == x2 >= img_w - Tolerance
        is_top    == y1 <= Tolerance
        is_bottom == y2 >= img_h - Tolerance
        border_count ==
            Count(is_left) + Count(is_right) + Count(is_top) + Count(is_bottom)
    IN  IF border_count >= 2 THEN "corner"
        ELSE IF border_count = 1 THEN "edge"
        ELSE "interior"

\* the entry of pieces_metadata for pid
PieceEntry(pid, index_data, adjacent_data) ==
    LET pdata == PData(pid)
    IN  [id |-> pid, filename |-> PiecePng(pid),
         x1 |-> pdata[1], y1 |-> pdata[2], x2 |-> pdata[3], y2 |-> pdata[4],
         width |-> pdata[Len(pdata) - 1], height |-> pdata[Len(pdata)],
         type |-> PieceType(pdata[1], pdata[2], pdata[3], pdata[4],
                            index_data.image_width, index_data.image_height),
         neighbours |-> AdjacentOf(adjacent_data, pid)]

\* the id is skipped but not recorded
RecordMissingDropped(missing_pieces, pid) == missing_pieces

\* missing_pieces.append(pid)
RecordMissing(missing_pieces, pid) == Append(missing_pieces, pid)

\* the copy left out
CopyPieceSkipped(f, out, pid, r) == f

\* shutil.copy2(src_png, dst_png)
CopyPiece(f, out, pid, r) == WriteFile(f, out, PiecePng(pid), r, NoData)

\* the directory kept: exist_ok alone
ClearOutputDirKept(f, out) == f

\* if os.path.exists(output_dir): shutil.rmtree(output_dir)
ClearOutputDir(f, out) == IF DirExists(f, out) THEN Rmtree(f, out) ELSE f

\* the document with piece_count taken from the ids of pieces.json
BuildMetadataCountsIds(l) ==
    [piece_count |-> Len(l.piece_ids),
     image_width |-> l.index_data.image_width,
     image_height |-> l.index_data.image_height,
     requested_pieces |-> l.num_pieces,
     pieces |-> l.pieces_metadata,
     warning |-> IF l.missing_pieces # <<>>
                 THEN [present |-> TRUE, count |-> Len(l.missing_pieces),
                       ids |-> l.missing_pieces]
                 ELSE NoWarning]

\* the metadata document
BuildMetadata(l) ==
    [piece_count |-> Len(l.pieces_metadata),
     image_width |-> l.index_data.image_width,
     image_height |-> l.index_data.image_height,
     requested_pieces |-> l.num_pieces,
     pieces |-> l.pieces_metadata,
     warning |-> IF l.missing_pieces # <<>>
                 THEN [present |-> TRUE, count |-> Len(l.missing_pieces),
                       ids |-> l.missing_pieces]
                 ELSE NoWarning]

\* a handler that reports SystemExit too
HandlerReportsAll(e) == e \in {"Exception", "SystemExit"}

\* the __main__ handler: SystemExit is re-raised, anything else is
\* reported through error_exit
HandlerReports(e) == e = "Exception"

---------------------------------------------------------------------------
(* main(): one action per step *)

\* lines 64-76: the three checks of the command line
ParseArgs(r) ==
    /\ pc[r] = "main"
    /\ LET n == PyInt(argv[r].count)
       IN  IF argv[r].argc # ExpectedArgc
           THEN error_exit(r, "usage") /\ UNCHANGED loc
           ELSE IF ~n.ok
           THEN error_exit(r, "invalid piece count") /\ UNCHANGED loc
           ELSE IF ~ValidCount(n.val)
           THEN error_exit(r, "need at least 2 pieces") /\ UNCHANGED loc
           ELSE /\ loc' = [loc EXCEPT ![r].num_pieces = n.val]
                /\ Goto(r, "check_image")
    /\ UNCHANGED <<inputs, fs, tmpfiles, exit_code, did, cut>>

\* lines 78-79
CheckImage(r) ==
    /\ pc[r] = "check_image"
    /\ IF image[r] = "missing"
       THEN error_exit(r, "image not found")
       ELSE Goto(r, "upscale")
    /\ UNCHANGED <<inputs, loc, fs, tmpfiles, exit_code, did, cut>>

\* line 82, ensure_minimum_resolution (lines 35-60)
EnsureMinimumResolution(r) ==
    /\ pc[r] = "upscale"
    /\ Note(r, "open_image")
    /\ CASE image[r] = "no_pillow" ->    \* the import of PIL fails
              /\ error_exit(r, "pillow is not installed")
              /\ UNCHANGED <<loc, tmpfiles>>
         [] image[r] = "undecodable" ->
              /\ error_exit(r, "could not open image")
              /\ UNCHANGED <<loc, tmpfiles>>
         [] image[r] = "large" ->
              /\ loc' = [loc EXCEPT ![r].actual_image = "original",
                                    ![r].cleanup_upscaled = FALSE]
              /\ Goto(r, "clear_temp")
              /\ UNCHANGED tmpfiles
         [] image[r] = "small" ->
              /\ loc' = [loc EXCEPT ![r].actual_image = "upscaled",
                                    ![r].cleanup_upscaled = TRUE]
              /\ tmpfiles' = tmpfiles \cup {r}
              /\ Goto(r, "clear_temp")
         [] OTHER ->    \* "truncated": opens, then resize() raises
              /\ Raise(r)
              /\ UNCHANGED <<loc, tmpfiles>>
    /\ UNCHANGED <<inputs, fs, exit_code, cut>>

\* lines 85-87
ClearTemp(r) ==
    /\ pc[r] = "clear_temp"
    /\ LET t == Resolve(TempDirOf(argv[r].output_dir))
       IN  /\ loc' = [loc EXCEPT ![r].temp_dir = t]
           /\ fs' = IF DirExists(fs, t) THEN Rmtree(fs, t) ELSE fs
    /\ Note(r, "dirs")
    /\ Goto(r, "make_temp")
    /\ UNCHANGED <<inputs, tmpfiles, exit_code, cut>>

\* line 88
MakeTemp(r) ==
    /\ pc[r] = "make_temp"
    /\ fs' = Makedirs(fs, loc[r].temp_dir, r)
    /\ Goto(r, "piecemaker")
    /\ UNCHANGED <<inputs, loc, tmpfiles, exit_code, did, cut>>

\* lines 91-111: the subprocess, from its start to its end
RunPiecemaker(r, results) ==
    /\ pc[r] = "piecemaker"
    /\ \E c \in results :
         /\ fs' = RunCutterFiles(fs, c, loc[r].temp_dir, r)
         /\ cut' = [cut EXCEPT ![r] = c]
         /\ CASE c.outcome = "nonzero"  -> error_exit(r, "piecemaker failed")
              [] c.outcome = "notfound" -> error_exit(r, "piecemaker not found")
              [] c.outcome = "timeout"  -> error_exit(r, "piecemaker timed out")
              [] OTHER -> Goto(r, "find_size")
    /\ Note(r, "spawn")
    /\ UNCHANGED <<inputs, loc, tmpfiles, exit_code>>

\* lines 114-130
FindSizeDir(r) ==
    /\ pc[r] = "find_size"
    /\ LET t == loc[r].temp_dir
           size_dirs == ListSizeDirs(fs, t)
       IN  IF ~DirExists(fs, t)
           THEN Raise(r) /\ UNCHANGED loc    \* os.listdir raises
           ELSE IF size_dirs = {}
           THEN error_exit(r, "no output directory") /\ UNCHANGED loc
           ELSE \E d \in SelectSizeDir(size_dirs) :
                  /\ loc' = [loc EXCEPT ![r].size_dirs = size_dirs,
                                        ![r].size_dir = d]
                  /\ Goto(r, "read_index")
    /\ UNCHANGED <<inputs, fs, tmpfiles, exit_code, did, cut>>

\* lines 137-143
ReadIndex(r) ==
    /\ pc[r] = "read_index"
    /\ Note(r, "read_metadata")
    /\ LET got == LoadJson(fs, loc[r].temp_dir, FileName("index.json"))
       IN  CASE got = "missing" ->
                  error_exit(r, "missing index.json") /\ UNCHANGED loc
             [] got = "corrupt" ->
                  error_exit(r, "corrupt index.json") /\ UNCHANGED loc
             [] OTHER ->
                  /\ loc' = [loc EXCEPT ![r].index_data =
                               [image_width |-> ImageWidth,
                                image_height |-> ImageHeight]]
                  /\ Goto(r, "read_adjacent")
    /\ UNCHANGED <<inputs, fs, tmpfiles, exit_code, cut>>

\* lines 145-151
ReadAdjacent(r) ==
    /\ pc[r] = "read_adjacent"
    /\ LET n == FileName("adjacent.json")
           got == LoadJson(fs, loc[r].temp_dir, n)
       IN  CASE got = "missing" ->
                  error_exit(r, "missing adjacent.json") /\ UNCHANGED loc
             [] got = "corrupt" ->
                  error_exit(r, "corrupt adjacent.json") /\ UNCHANGED loc
             [] OTHER ->
                  /\ loc' = [loc EXCEPT ![r].adjacent_data =
                               ReadFile(fs, loc[r].temp_dir, n).ids]
                  /\ Goto(r, "read_pieces")
    /\ UNCHANGED <<inputs, fs, tmpfiles, exit_code, did, cut>>

\* lines 153-159
ReadPieces(r) ==
    /\ pc[r] = "read_pieces"
    /\ LET n == PiecesJson(loc[r].size_dir)
           got == LoadJson(fs, loc[r].temp_dir, n)
       IN  CASE got = "missing" ->
                  error_exit(r, "missing pieces.json") /\ UNCHANGED loc
             [] got = "corrupt" ->
                  error_exit(r, "corrupt pieces.json") /\ UNCHANGED loc
             [] OTHER ->
                  /\ loc' = [loc EXCEPT ![r].pieces_data =
                               ReadFile(fs, loc[r].temp_dir, n).ids]
                  /\ Goto(r, "clear_output")
    /\ UNCHANGED <<inputs, fs, tmpfiles, exit_code, did, cut>>

\* lines 162-163
ClearOutput(r) ==
    /\ pc[r] = "clear_output"
    /\ fs' = ClearOutputDir(fs, OutputDir(r))
    /\ Note(r, "output")
    /\ Goto(r, "make_output")
    /\ UNCHANGED <<inputs, loc, tmpfiles, exit_code, cut>>

\* lines 164-173
MakeOutput(r) ==
    /\ pc[r] = "make_output"
    /\ fs' = WriteFile(Makedirs(fs, OutputDir(r), r), OutputDir(r),
                       FileName("pieces/"), r, NoData)
    /\ loc' = [loc EXCEPT ![r].piece_ids = SortedSeq(loc[r].pieces_data),
                          ![r].next_pid = 1,
                          ![r].pieces_metadata = <<>>,
                          ![r].missing_pieces = <<>>]
    /\ Goto(r, "loop")
    /\ UNCHANGED <<inputs, tmpfiles, exit_code, did, cut>>

\* lines 174-213: one iteration of the loop over piece_ids
ProcessPiece(r) ==
    /\ pc[r] = "loop"
    /\ loc[r].next_pid <= Len(loc[r].piece_ids)
    /\ LET l == loc[r]
           pid == l.piece_ids[l.next_pid]
       IN  IF ~Exists(fs, l.temp_dir, RasterPng(l.size_dir, pid))
           THEN /\ loc' = [loc EXCEPT
                     ![r].missing_pieces = RecordMissing(l.missing_pieces, pid),
                     ![r].next_pid = l.next_pid + 1]
                /\ Goto(r, "loop")
                /\ UNCHANGED fs
           ELSE IF ~Exists(fs, OutputDir(r), FileName("pieces/"))
           THEN Raise(r) /\ UNCHANGED <<loc, fs>>    \* copy2 raises
           ELSE /\ fs' = CopyPiece(fs, OutputDir(r), pid, r)
                /\ loc' = [loc EXCEPT
                     ![r].pieces_metadata =
                        Append(l.pieces_metadata,
                               PieceEntry(pid, l.index_data, l.adjacent_data)),
                     ![r].next_pid = l.next_pid + 1]
                /\ Goto(r, "loop")
    /\ UNCHANGED <<inputs, tmpfiles, exit_code, did, cut>>

\* lines 215-216, at the end of the loop
FinishLoop(r) ==
    /\ pc[r] = "loop"
    /\ loc[r].next_pid > Len(loc[r].piece_ids)
    /\ IF loc[r].pieces_metadata = <<>>
       THEN error_exit(r, "no piece image files")
       ELSE Goto(r, "copy_lines")
    /\ UNCHANGED <<inputs, loc, fs, tmpfiles, exit_code, did, cut>>

\* lines 219-224
CopyLines(r) ==
    /\ pc[r] = "copy_lines"
    /\ LET present == {x \in {"png", "svg"} :
                         Exists(fs, loc[r].temp_dir, LinesResized(x))}
       IN  IF present # {} /\ ~DirExists(fs, OutputDir(r))
           THEN Raise(r) /\ UNCHANGED fs    \* copy2 raises
           ELSE /\ fs' = {e \in fs : \A x \in present :
                            ~(e.dir = OutputDir(r) /\ e.name = LinesOut(x))}
                         \cup {Entry(OutputDir(r), LinesOut(x), r, NoData) :
                                 x \in present}
                /\ Goto(r, "write_metadata")
    /\ UNCHANGED <<inputs, loc, tmpfiles, exit_code, did, cut>>

\* lines 227-241
WriteMetadata(r) ==
    /\ pc[r] = "write_metadata"
    /\ IF ~DirExists(fs, OutputDir(r))
       THEN Raise(r) /\ UNCHANGED <<loc, fs>>    \* open(..., "w") raises
       ELSE /\ loc' = [loc EXCEPT ![r].metadata = BuildMetadata(loc[r])]
            /\ fs' = WriteFile(fs, OutputDir(r), FileName("metadata.json"), r,
                               [ok |-> TRUE,
                                ids |-> {loc[r].pieces_metadata[i].id :
                                           i \in 1..Len(loc[r].pieces_metadata)}])
            /\ Goto(r, "cleanup")
    /\ UNCHANGED <<inputs, tmpfiles, exit_code, did, cut>>

\* lines 244-249
Cleanup(r) ==
    /\ pc[r] = "cleanup"
    /\ fs' = Rmtree(fs, loc[r].temp_dir)
    /\ tmpfiles' = IF loc[r].cleanup_upscaled THEN tmpfiles \ {r} ELSE tmpfiles
    /\ Goto(r, "print")
    /\ UNCHANGED <<inputs, loc, exit_code, did, cut>>

\* line 252; main() returns and the interpreter exits with status 0
PrintMetadata(r) ==
    /\ pc[r] = "print"
    /\ stdout' = [stdout EXCEPT ![r] = Append(@, MetadataObject(loc[r].metadata))]
    /\ exit_code' = [exit_code EXCEPT ![r] = 0]
    /\ pc' = [pc EXCEPT ![r] = "done"]
    /\ UNCHANGED <<inputs, loc, fs, tmpfiles, exc, did, cut>>

\* lines 255-262: the handler around main()
Unwind(r) ==
    /\ pc[r] = "unwind"
    /\ stdout' = IF HandlerReports(exc[r])
                 THEN [stdout EXCEPT ![r] = Append(@, ErrorObject("unexpected"))]
                 ELSE stdout
    /\ exit_code' = [exit_code EXCEPT ![r] = 1]
    /\ pc' = [pc EXCEPT ![r] = "done"]
    /\ UNCHANGED <<inputs, loc, fs, tmpfiles, exc, did, cut>>

---------------------------------------------------------------------------
(* The classification alone, lines 190-204 *)

ZeroBox == [x1 |-> 0, y1 |-> 0, x2 |-> 0, y2 |-> 0, img_w |-> 0, img_h |-> 0]

\* image extents tried
Dims == (0..SmallDim) \cup {BigDim}

\* coordinates tried on an axis of extent w: those near either border and
\* some away from both
Coords(w) ==
    {c \in {0, 1, 2, 3, 5, w - 5, w - 3, w - 2, w - 1, w} : c >= 0 /\ c <= w}

\* boxes inside the image
Boxes ==
    UNION {
      {[x1 |-> a, y1 |-> b, x2 |-> c, y2 |-> d, img_w |-> w, img_h |-> h] :
          a \in Coords(w), b \in Coords(h), c \in Coords(w), d \in Coords(h)}
      : w \in Dims, h \in Dims}

InImage(b) ==
    /\ 0 <= b.x1 /\ b.x1 <= b.x2 /\ b.x2 <= b.img_w
    /\ 0 <= b.y1 /\ b.y1 <= b.y2 /\ b.y2 <= b.img_h

Classify ==
    /\ ptype = "none"
    /\ ptype' = PieceType(box.x1, box.y1, box.x2, box.y2, box.img_w, box.img_h)
    /\ UNCHANGED <<runvars, box>>

---------------------------------------------------------------------------
(* Specifications *)

\* what the image path leads to: no file; a file with Pillow not
\* installed; a file Image.open rejects; a small image that opens and
\* fails to decode in resize(); a small image; a large image
ImageKinds ==
    {"missing", "no_pillow", "undecodable", "truncated", "small", "large"}

\* argv[3]: the counts 0..MaxCount in decimal, a negative count and a
\* string that is no integer
CountArgs ==
    {<<Digits[n + 1]>> : n \in 0..MaxCount} \cup {<<"x">>, <<"-", "1">>}

Out == Arg("out", 0, FALSE)

OutSlash == Arg("out", 0, TRUE)

OutTemp == Arg("out", 1, FALSE)

OutSub == [path |-> <<<<"out", 0>>, <<"sub", 0>>>>, slash |-> FALSE]

Alt == Arg("alt", 0, FALSE)

NoArgv == [argc |-> 0, output_dir |-> Out, count |-> <<"0">>]

\* what an earlier run left in output directory d
StaleOutput(d) ==
    {Entry(d, DirName, 0, NoData),
     Entry(d, FileName("pieces/"), 0, NoData),
     Entry(d, PiecePng(MaxId + 1), 0, NoData),
     Entry(d, FileName("metadata.json"), 0, [ok |-> TRUE, ids |-> {MaxId + 1}])}

\* what an earlier, failed run left in its temporary directory t
StaleTemp(t) ==
    {Entry(SubSeq(t, 1, i), DirName, 0, NoData) : i \in 1..Len(t)}
    \cup {Entry(t, FileName("index.json"), 0, NoData),
          Entry(t, SizeDir(<<"5", "0">>), 0, NoData)}

InitialFS(a) ==
    {{}, StaleOutput(Resolve(a)),
     StaleOutput(Resolve(a)) \cup StaleTemp(Resolve(AppendSuffix(a)))}

InitCommon ==
    /\ loc = [r \in Runs |-> InitLoc]
    /\ tmpfiles = {}
    /\ stdout = [r \in Runs |-> <<>>]
    /\ exit_code = [r \in Runs |-> -1]
    /\ exc = [r \in Runs |-> "none"]
    /\ did = [r \in Runs |-> {}]
    /\ cut = [r \in Runs |-> NoResult]

\* one run of the script
Init ==
    /\ \E a \in {[argc |-> ExpectedArgc - 1, output_dir |-> Out,
                  count |-> <<"2">>]}
                \cup [argc : {ExpectedArgc}, output_dir : {Out, OutSlash},
                      count : CountArgs] :
         /\ argv = [r \in Runs |-> IF r = 1 THEN a ELSE NoArgv]
         /\ fs \in InitialFS(a.output_dir)
    /\ fs0 = fs
    /\ image \in [Runs -> ImageKinds]
    /\ image[2] = "missing"
    /\ pc = [r \in Runs |-> IF r = 1 THEN "main" ELSE "absent"]
    /\ InitCommon
    /\ box = ZeroBox
    /\ ptype = "none"

Step(r, results) ==
    \/ ParseArgs(r)
    \/ CheckImage(r)
    \/ EnsureMinimumResolution(r)
    \/ ClearTemp(r)
    \/ MakeTemp(r)
    \/ RunPiecemaker(r, results)
    \/ FindSizeDir(r)
    \/ ReadIndex(r)
    \/ ReadAdjacent(r)
    \/ ReadPieces(r)
    \/ ClearOutput(r)
    \/ MakeOutput(r)
    \/ ProcessPiece(r)
    \/ FinishLoop(r)
    \/ CopyLines(r)
    \/ WriteMetadata(r)
    \/ Cleanup(r)
    \/ PrintMetadata(r)
    \/ Unwind(r)

Next == \E r \in Runs : Step(r, CutterResults)

Spec == Init /\ [][Next]_vars

\* two runs of the script, started together with valid arguments
InitConc ==
    /\ \E o \in {OutTemp, OutSlash, OutSub, Alt} :
         argv = [r \in Runs |->
                   [argc |-> ExpectedArgc,
                    output_dir |-> IF r = 1 THEN Out ELSE o,
                    count |-> <<"2">>]]
    /\ image \in [Runs -> {"small", "large"}]
    /\ image[1] = "large"
    /\ fs = {}
    /\ fs0 = {}
    /\ pc = [r \in Runs |-> "main"]
    /\ InitCommon
    /\ box = ZeroBox
    /\ ptype = "none"

NextConc == \E r \in Runs : Step(r, ConcCutterResults)

SpecConc == InitConc /\ [][NextConc]_vars

\* the classification applied to a box
InitClassify ==
    /\ box \in {b \in Boxes : InImage(b)}
    /\ ptype = "none"
    /\ argv = [r \in Runs |-> NoArgv]
    /\ image = [r \in Runs |-> "missing"]
    /\ fs = {}
    /\ fs0 = {}
    /\ pc = [r \in Runs |-> "absent"]
    /\ InitCommon

SpecClassify == InitClassify /\ [][Classify]_vars

---------------------------------------------------------------------------
(* Vocabulary of the properties *)

\* the runs of this behaviour
Started == {r \in Runs : pc[r] # "absent"}

Done(r) == pc[r] = "done"

Failed(r) == Done(r) /\ exit_code[r] # 0

Succeeded(r) == Done(r) /\ exit_code[r] = 0

\* the error message a failed run printed
ErrorOf(r) == stdout[r][1].error

\* the document a successful run printed
DocOf(r) == stdout[r][1].metadata

SeqSet(q) == {q[i] : i \in 1..Len(q)}

PieceIds(m) == {m.pieces[i].id : i \in 1..Len(m.pieces)}

\* <output_dir>_temp, as the operating system resolves it
TempPath(r) == Resolve(AppendSuffix(argv[r].output_dir))

\* the command line fails the validation of lines 64-76
BadArgs(r) ==
    \/ argv[r].argc # 4
    \/ ~PyInt(argv[r].count).ok
    \/ PyInt(argv[r].count).val < 2

---------------------------------------------------------------------------
\* C1: a failed run prints exactly one {"error": ...} object, exits with a
\* non-zero status and prints no metadata document; a run that prints the
\* metadata document exits with status 0 and prints no error object.  No
\* run prints more than one object, and a finished run has printed one.
C1_OneResult ==
    \A r \in Runs :
      /\ Len(stdout[r]) <= 1
      /\ \A i \in 1..Len(stdout[r]) :
           /\ stdout[r][i].kind = "error" => exit_code[r] # 0
           /\ stdout[r][i].kind = "metadata" => exit_code[r] = 0
      /\ Done(r) =>
           /\ exit_code[r] \in {0, 1}
           /\ Len(stdout[r]) = 1
           /\ exit_code[r] = 1 => stdout[r][1].kind = "error"
           /\ exit_code[r] = 0 => stdout[r][1].kind = "metadata"
      /\ pc[r] = "unwind" => \A i \in 1..Len(stdout[r]) :
                               stdout[r][i].kind = "error"

\* a run that ended through the catch-all handler, and one that succeeded
C1_Witness ==
    \E r \in Runs : Failed(r) /\ exc[r] = "Exception"
                    /\ stdout[r] = <<ErrorObject("unexpected")>>

---------------------------------------------------------------------------
\* C2: when the argument count is not three, the count is no integer or the
\* count is below 2, the run does nothing but print the error: the image
\* is not opened, no directory is created or deleted, no subprocess is
\* spawned, and it ends with a JSON error and status 1.  A run that spawned
\* the subprocess passed the check num_pieces >= 2.
C2_ValidationFirst ==
    \A r \in Started :
      /\ BadArgs(r) =>
           /\ did[r] = {}
           /\ cut[r] = NoResult
           /\ r \notin tmpfiles
           /\ \A e \in fs : e.by # r
           /\ pc[r] \in {"main", "unwind", "done"}
           /\ Done(r) => exit_code[r] = 1 /\ stdout[r][1].kind = "error"
      /\ "spawn" \in did[r] => loc[r].num_pieces >= 2

\* a run given the piece count 1 has ended
C2_Witness ==
    \E r \in Runs : /\ Done(r)
                    /\ argv[r].argc = 4
                    /\ argv[r].count = <<"1">>
                    /\ ErrorOf(r) = "need at least 2 pieces"

---------------------------------------------------------------------------
\* C3 as stated: in a successful run whose document carries a warning,
\* piece_count = requested_pieces - (number of ids listed as missing).
C3_Original ==
    \A r \in Started :
      Succeeded(r) /\ DocOf(r).warning.present =>
        DocOf(r).piece_count =
          DocOf(r).requested_pieces - Len(DocOf(r).warning.ids)

\* C3 (amended): in a successful run, piece_count is the number of ids the
\* cutter put in pieces.json minus the number of ids listed as missing in
\* the warning (none when there is no warning); the warning's own count is
\* the number of ids it lists.  requested_pieces is the command line's
\* count, whatever the cutter produced.
C3_CountIsIdsMinusMissing ==
    \A r \in Started :
      Succeeded(r) =>
        /\ DocOf(r).piece_count =
             Cardinality(cut[r].ids) - Len(DocOf(r).warning.ids)
        /\ DocOf(r).warning.count = Len(DocOf(r).warning.ids)
        /\ DocOf(r).warning.present <=> DocOf(r).warning.ids # <<>>
        /\ DocOf(r).requested_pieces = PyInt(argv[r].count).val

\* a successful run with a warning whose cutter did not honour the count
C3_Witness ==
    \E r \in Started :
      /\ Succeeded(r)
      /\ DocOf(r).warning.present
      /\ Cardinality(cut[r].ids) # DocOf(r).requested_pieces

---------------------------------------------------------------------------
\* C4: once metadata.json is written, and when the document is printed,
\* piece_count = len(pieces); every entry's file pieces/piece_<id>.png
\* exists in the output directory; an id whose image the cutter did not
\* produce is in no entry and is listed in the warning.
C4_PiecesExist ==
    \A r \in Started :
      pc[r] \in {"cleanup", "print"} \/ Succeeded(r) =>
        LET m == loc[r].metadata
        IN  /\ m.piece_count = Len(m.pieces)
            /\ \A i \in 1..Len(m.pieces) :
                 /\ m.pieces[i].filename = PiecePng(m.pieces[i].id)
                 /\ Exists(fs, OutputDir(r), m.pieces[i].filename)
            /\ \A pid \in cut[r].ids \ cut[r].raster :
                 /\ pid \notin PieceIds(m)
                 /\ m.warning.present
                 /\ pid \in SeqSet(m.warning.ids)
            /\ Exists(fs, OutputDir(r), FileName("metadata.json"))
            /\ Succeeded(r) => DocOf(r) = m

\* the document is printed, with an entry and with a missing id
C4_Witness ==
    \E r \in Started :
      /\ Succeeded(r)
      /\ DocOf(r).pieces # <<>>
      /\ cut[r].ids \ cut[r].raster # {}

---------------------------------------------------------------------------
\* C6: in the loop over the ids of pieces.json, each id handled so far is
\* in pieces_metadata when its image exists in the raster folder and in
\* missing_pieces when it does not, and no id is left out.  A run that
\* finished the loop succeeds exactly when an image was found: then its
\* warning lists exactly the missing ids (no warning when none is
\* missing); otherwise it fails with the no-pieces error.
C6_MissingIsRecoverable ==
    \A r \in Started :
      LET l == loc[r]
          handled == {l.piece_ids[k] : k \in 1..(l.next_pid - 1)}
          found == {l.pieces_metadata[i].id : i \in 1..Len(l.pieces_metadata)}
          finished == /\ "output" \in did[r]
                      /\ pc[r] # "make_output"
                      /\ l.next_pid > Len(l.piece_ids)
      IN  /\ pc[r] \in {"loop", "copy_lines", "write_metadata", "cleanup"} =>
               /\ SeqSet(l.piece_ids) = cut[r].ids
               /\ \A pid \in handled :
                    IF Exists(fs, l.temp_dir, RasterPng(l.size_dir, pid))
                    THEN pid \in found /\ pid \notin SeqSet(l.missing_pieces)
                    ELSE pid \in SeqSet(l.missing_pieces) /\ pid \notin found
               /\ found \cup SeqSet(l.missing_pieces) = handled
          /\ Done(r) /\ finished =>
               /\ Succeeded(r) <=> found # {}
               /\ Succeeded(r) =>
                    /\ DocOf(r).warning.ids = l.missing_pieces
                    /\ DocOf(r).warning.present <=> l.missing_pieces # <<>>
                    /\ PieceIds(DocOf(r)) = found
               /\ Failed(r) => ErrorOf(r) = "no piece image files"
               /\ found \cup SeqSet(l.missing_pieces) = cut[r].ids
          /\ Done(r) /\ ErrorOf(r) = "no piece image files" => finished

\* some image found, some missing: the run succeeded with a warning
C6_Witness ==
    \E r \in Started :
      /\ Succeeded(r)
      /\ DocOf(r).warning.present
      /\ DocOf(r).pieces # <<>>

---------------------------------------------------------------------------
\* a coordinate within 2 pixels of a border position
Near(c, border) == Abs(c - border) <= 2

\* the number of sides of the box that touch the border of the image
SidesTouching(b) ==
    Count(Near(b.x1, 0)) + Count(Near(b.x2, b.img_w))
    + Count(Near(b.y1, 0)) + Count(Near(b.y2, b.img_h))

---------------------------------------------------------------------------
\* the value the claim gives the suffix of a size directory: its integer,
\* and 0 when it is no integer
TierValue(t) ==
    CASE t = <<"1", "0", "0">> -> 100
      [] t = <<"5", "0">> -> 50
      [] t = <<"2", "5">> -> 25
      [] t = <<"-", "5">> -> 0 - 5
      [] OTHER -> 0

\* C9: the selected size directory is one of those the cutter left and none
\* of them has a larger value; with size-100, size-50 and size-25 present
\* it is size-100; a directory with an unparseable suffix is selected when
\* nothing larger is there.  The run fails with the no-output error exactly
\* when the cutter left no size directory, and then it has read no metadata
\* file and has not touched the output directory.
C9_LargestSizeDir ==
    \A r \in Started :
      LET l == loc[r]
          selected == pc[r] \notin {"main", "check_image", "upscale",
                                    "clear_temp", "make_temp", "piecemaker",
                                    "find_size", "unwind", "done"}
                      \/ l.size_dir # NoTier
      IN  /\ selected =>
               /\ l.size_dirs = cut[r].tiers
               /\ l.size_dir \in l.size_dirs
               /\ \A d \in l.size_dirs : TierValue(l.size_dir) >= TierValue(d)
               /\ {<<"1", "0", "0">>, <<"5", "0">>, <<"2", "5">>}
                    \subseteq l.size_dirs => l.size_dir = <<"1", "0", "0">>
          /\ Done(r) /\ cut[r].outcome = "ok" =>
               /\ cut[r].tiers = {} <=> ErrorOf(r) = "no output directory"
               /\ cut[r].tiers # {} => l.size_dir # NoTier
               /\ cut[r].tiers = {} =>
                    /\ Failed(r)
                    /\ "read_metadata" \notin did[r]
                    /\ "output" \notin did[r]
                    /\ {e \in fs0 : e.dir = OutputDir(r)} \subseteq fs
                    /\ \A e \in fs : e.dir = OutputDir(r) /\ e.by = r
                                        => e.name = DirName

\* size-100, size-50 and size-25 were there and size-100 was selected
C9_Witness ==
    \E r \in Started :
      /\ loc[r].size_dirs = {<<"1", "0", "0">>, <<"5", "0">>, <<"2", "5">>}
      /\ loc[r].size_dir = <<"1", "0", "0">>

---------------------------------------------------------------------------
\* what was in the output directory before the run is still there
OldContents(r) == {e \in Under(fs, OutputDir(r)) : e \in fs0}

\* C8 as stated: after any run ends, the output directory holds nothing
\* that was there before the run started.
C8_Original == \A r \in Started : Done(r) => OldContents(r) = {}

\* C8 (amended): after a run that succeeds, or that fails only because no
\* piece image was found, the output directory holds nothing that was
\* there before the run started, and what it holds was written by that
\* run.
C8_ReplacedOnceReached ==
    \A r \in Started :
      Done(r) /\ (Succeeded(r) \/ ErrorOf(r) = "no piece image files") =>
        /\ OldContents(r) = {}
        /\ \A e \in Under(fs, OutputDir(r)) : e.by = r

\* a successful run over an output directory that held old files
C8_Witness ==
    \E r \in Started :
      /\ Succeeded(r)
      /\ Under(fs0, OutputDir(r)) # {}
      /\ Under(fs, OutputDir(r)) # {}

---------------------------------------------------------------------------
\* C10 as stated: when a run has ended, with success or with an error, the
\* temporary directory <output_dir>_temp it used and the upscaled image it
\* created are gone.
C10_Claim ==
    \A r \in Started :
      Done(r) =>
        /\ \A e \in Under(fs, TempPath(r)) : e.by # r
        /\ r \notin tmpfiles

---------------------------------------------------------------------------
(* Two runs *)

\* the directories run r works in: <output_dir> and <output_dir>_temp
Roots(r) == {OutputDir(r), TempPath(r)}

\* neither directory is the other or lies inside it
Apart(d, e) == ~IsPrefix(d, e) /\ ~IsPrefix(e, d)

DisjointRoots == \A d \in Roots(1), e \in Roots(2) : Apart(d, e)

\* the object run r prints when it runs alone with the same command line,
\* the same image and the same behaviour cut[r] of its cutter
AloneOutput(r) ==
    LET c == cut[r]
        inside == IsPrefix(OutputDir(r), TempPath(r))
        found == IF inside THEN {} ELSE c.raster
        entries == [i \in 1..Cardinality(found) |->
                      PieceEntry(SortedSeq(found)[i],
                                 [image_width |-> ImageWidth,
                                  image_height |-> ImageHeight], c.ids)]
        missing == SortedSeq(c.ids \ found)
    IN  CASE argv[r].argc # 4 -> ErrorObject("usage")
          [] ~PyInt(argv[r].count).ok -> ErrorObject("invalid piece count")
          [] PyInt(argv[r].count).val < 2 -> ErrorObject("need at least 2 pieces")
          [] image[r] = "missing" -> ErrorObject("image not found")
          [] image[r] = "no_pillow" -> ErrorObject("pillow is not installed")
          [] image[r] = "undecodable" -> ErrorObject("could not open image")
          [] image[r] = "truncated" -> ErrorObject("unexpected")
          [] c.outcome = "nonzero" -> ErrorObject("piecemaker failed")
          [] c.outcome = "notfound" -> ErrorObject("piecemaker not found")
          [] c.outcome = "timeout" -> ErrorObject("piecemaker timed out")
          [] c.tiers = {} -> ErrorObject("no output directory")
          [] c.bad = <<"index.json", "missing">> ->
               ErrorObject("missing index.json")
          [] c.bad = <<"index.json", "corrupt">> ->
               ErrorObject("corrupt index.json")
          [] c.bad = <<"adjacent.json", "missing">> ->
               ErrorObject("missing adjacent.json")
          [] c.bad = <<"adjacent.json", "corrupt">> ->
               ErrorObject("corrupt adjacent.json")
          [] c.bad = <<"pieces.json", "missing">> ->
               ErrorObject("missing pieces.json")
          [] c.bad = <<"pieces.json", "corrupt">> ->
               ErrorObject("corrupt pieces.json")
          [] found = {} -> ErrorObject("no piece image files")
          [] OTHER ->
               MetadataObject(
                 [piece_count |-> Cardinality(found),
                  image_width |-> ImageWidth,
                  image_height |-> ImageHeight,
                  requested_pieces |-> PyInt(argv[r].count).val,
                  pieces |-> entries,
                  warning |-> IF missing = <<>> THEN NoWarning
                              ELSE [present |-> TRUE, count |-> Len(missing),
                                    ids |-> missing]])

\* every finished run printed what it prints alone
SameAsAlone == \A r \in Started : Done(r) => stdout[r] = <<AloneOutput(r)>>

\* a step of one run leaves everything beneath the directories of the
\* other run as it was (the run that takes a step changes its pc or its
\* locals)
NoCrossTouch ==
    \A r \in Runs :
      pc'[r] = pc[r] /\ loc'[r] = loc[r] =>
        \A d \in Roots(r) : Under(fs', d) = Under(fs, d)

\* C7 as stated: two runs whose output directory arguments differ do not
\* touch each other's files, and each prints what it prints alone.
C7_Original ==
    /\ [](argv[1].output_dir # argv[2].output_dir => SameAsAlone)
    /\ [][argv[1].output_dir # argv[2].output_dir => NoCrossTouch]_vars

\* C7 (amended): two runs are independent when none of the directories
\* <output_dir>, <output_dir>_temp of one is the same as, or lies inside,
\* a directory <output_dir>, <output_dir>_temp of the other: then no step
\* of one run creates, deletes or overwrites anything beneath the other's
\* directories, and each run prints what it prints alone.
C7_IndependentWhenApart ==
    /\ [](DisjointRoots => SameAsAlone)
    /\ [][DisjointRoots => NoCrossTouch]_vars

\* two runs with directories apart both succeeded
C7_Witness ==
    /\ DisjointRoots
    /\ Succeeded(1) /\ Succeeded(2)
    /\ DocOf(1).pieces # <<>> /\ DocOf(2).warning.present

=============================================================================
